---- MODULE Spec2Model ----
(***************************************************************************)
(* Rename table of saltext-migrate: Migration.__post_init__ builds the     *)
(* old -> new path table (renames) and the collision bookkeeping           *)
(* (conflicts) from the selected candidate paths (result).                 *)
(*                                                                         *)
(* A path is its tuple of parts (pathlib's Path.parts).  A part is the     *)
(* pair <<stem, suffix>> of the name, so that Path.stem, Path.suffix and   *)
(* Path.with_stem are computed and not looked up; stems hold no dot, so    *)
(* two parts are equal exactly when their names are equal.                 *)
(***************************************************************************)
EXTENDS Integers, Sequences, FiniteSets, TLC

VARIABLES result, exists, avoid_collisions, saltext_name,
          renames, conflicts, processed, err, last, calls

\* The rewrite passes that ExtensionMigrate.execute runs on the new tree:
\* pc is the step of the run, tree the references the import rewriter
\* looks at, passes the number of its completed runs; utils_info, sites,
\* file_imports, visited and utils_res are the state of the UtilsMigrator
\* and of the source it rewrites, dunder_utils_res is the result stored on
\* the Migration, failing_hooks the hooks _run_pre_commit stored on it and
\* summary what _print_summary printed.
VARIABLES pc, tree, passes, utils_info, sites, file_imports, visited,
          utils_res, dunder_utils_res, failing_hooks, summary

rewrite_vars == <<pc, tree, passes, utils_info, sites, file_imports, visited,
                  utils_res, dunder_utils_res, failing_hooks, summary>>

vars == <<result, exists, avoid_collisions, saltext_name,
          renames, conflicts, processed, err, last, calls, rewrite_vars>>

\* ---------------------------------------------------------------- bounds
MaxResult == 3

MaxCalls == 2

\* ----------------------------------------------------------------- paths
Dir(s) == <<s, "">>

Py(s) == <<s, ".py">>

Rst(s) == <<s, ".rst">>

\* Path.name of one part
Name(part) == part[1] \o part[2]

Min(a, b) == IF a < b THEN a ELSE b

\* parts[a:b] of Python (0-based, b exclusive, clamped to the length)
Slice(parts, a, b) ==
    IF a >= Min(b, Len(parts)) THEN <<>> ELSE SubSeq(parts, a + 1, Min(b, Len(parts)))

\* parts[a:]
From(parts, a) == Slice(parts, a, Len(parts))

\* the names of a tuple of parts, for comparisons with tuples of strings
Names(parts) == [i \in 1..Len(parts) |-> Name(parts[i])]

\* Path(*a, *b): the parts of both, in order
Join(a, b) == a \o b

\* new.with_stem(new.stem + suffix): the last part's stem is extended and
\* its suffix kept
WithStemSuffixed(path, suffix) ==
    [path EXCEPT ![Len(path)] = <<path[Len(path)][1] \o suffix, path[Len(path)][2]>>]

\* Path.suffix
Suffix(path) == path[Len(path)][2]

\* the candidate paths the model draws result from
Universe ==
    { <<Dir("salt"), Dir("cloud"), Dir("clouds"), Py("x")>>,
      <<Dir("salt"), Dir("clouds"), Py("x")>>,
      <<Dir("salt"), Dir("client"), Dir("ssh"), Dir("wrapper"), Py("x")>>,
      <<Dir("tests"), Dir("pytests"), Dir("unit"), Py("x")>>,
      <<Dir("tests"), Dir("pytests"), Dir("unit"), Py("x_old")>>,
      <<Dir("tests"), Dir("pytests"), Dir("unit"), Dir("cloud"), Dir("cloud"), Py("x")>>,
      <<Dir("tests"), Dir("unit"), Py("x")>>,
      <<Dir("tests"), Dir("unit"), Py("x_old")>>,
      <<Dir("tests"), Dir("unit"), Py("x_pytest")>>,
      <<Dir("tests"), Dir("unit"), Dir("cloud"), Py("x")>>,
      <<Dir("tests"), Dir("support"), Dir("pytest"), Py("x")>>,
      <<Dir("doc"), Dir("topics"), Rst("x")>> }

SaltextNames == {"vault"}

\* ------------------------------------------------------------ the tables
EmptyMap == [p \in {} |-> p]

\* DunderUtilsMigrationResult() as constructed: three empty defaultdicts
EmptyUtilsRes == [missed |-> EmptyMap, missed_critical |-> EmptyMap, rewrite |-> EmptyMap]

\* d[k] = v of a dict
Put(d, k, v) == [p \in (DOMAIN d) \cup {k} |-> IF p = k THEN v ELSE d[p]]

Values(d) == {d[p] : p \in DOMAIN d}

\* ------------------------------------------------- the cached properties
pytests == {p \in result : Names(Slice(p, 0, 2)) = <<"tests", "pytests">>}

pytest_support ==
    {p \in result : Names(Slice(p, 0, 3)) = <<"tests", "support", "pytest">>}

non_pytests ==
    {p \in result : /\ Suffix(p) = ".py"
                    /\ Name(p[1]) = "tests"
                    /\ Name(p[2]) \in {"unit", "integration"}}

modules == {p \in result : Name(p[1]) = "salt"}

doc == {p \in result : Name(p[1]) = "doc"}

\* ------------------------------------------------------------ assignment
\* The table as the three things an assignment changes.
Table == [renames |-> renames, conflicts |-> conflicts, err |-> err]

\* _rename without the old == new check of line 217
RenameWithoutNoOpCheck(t, old, new) ==
    IF t.err # "none" THEN t
    ELSE IF new \in result /\ new \in exists /\ new \notin DOMAIN t.renames
    THEN [t EXCEPT !.err = "TargetPathExists"]
    ELSE [t EXCEPT !.renames = Put(t.renames, old, new)]

\* Migration._rename; a table that already carries an exception is passed
\* through, which is how the exception propagates out of the caller.
Rename(t, old, new) ==
    IF t.err # "none" THEN t
    ELSE IF new \in result /\ new \in exists /\ new \notin DOMAIN t.renames
    THEN [t EXCEPT !.err = "TargetPathExists"]
    ELSE IF old = new
    THEN [t EXCEPT !.err = "ValueError"]
    ELSE [t EXCEPT !.renames = Put(t.renames, old, new)]

\* the escalation kept for the rest of the run (the flag stored on the object
\* instead of in the local)
EscalatedForTheRun(t, old, new) ==
    \/ avoid_collisions
    \/ DOMAIN t.conflicts # {}
    \/ Rename(t, old, new).err = "TargetPathExists"

\* the value of the local avoid_collisions after the try block
Escalated(t, old, new) ==
    avoid_collisions \/ Rename(t, old, new).err = "TargetPathExists"

\* the two fallback suffixes of lines 240-241 exchanged
RenamePotentiallyCollidingTestSwapped(t, old, new) ==
    LET direct == Rename(t, old, new)
        caught == ~avoid_collisions /\ direct.err = "TargetPathExists"
        t1 == IF avoid_collisions THEN t
              ELSE IF caught THEN [t EXCEPT !.conflicts = Put(t.conflicts, old, new)]
              ELSE direct
    IN  IF Escalated(t, old, new)
        THEN Rename(Rename(t1, new, WithStemSuffixed(new, "_pytest")),
                    old, WithStemSuffixed(new, "_old"))
        ELSE t1

\* Migration._rename_potentially_colliding_test
RenamePotentiallyCollidingTest(t, old, new) ==
    LET direct == Rename(t, old, new)
        caught == ~avoid_collisions /\ direct.err = "TargetPathExists"
        t1 == IF avoid_collisions THEN t
              ELSE IF caught THEN [t EXCEPT !.conflicts = Put(t.conflicts, old, new)]
              ELSE direct
    IN  IF Escalated(t, old, new)
        THEN Rename(Rename(t1, new, WithStemSuffixed(new, "_old")),
                    old, WithStemSuffixed(new, "_pytest"))
        ELSE t1

\* ------------------------------------------------- the computed new paths
Prefix == <<Dir("src"), Dir("saltext"), Dir(saltext_name)>>

\* the cloud branch taking parts[1:] instead of parts[2:]
ModuleNewPathKeepingCloud(path) ==
    IF Name(path[2]) = "cloud"
    THEN Join(Prefix, From(path, 1))
    ELSE IF Names(Slice(path, 1, 3)) = <<"client", "ssh", "wrapper">>
    THEN Join(Prefix, From(path, 3))
    ELSE Join(Prefix, From(path, 1))

\* lines 161-168; the caller has checked that parts[1] exists
ModuleNewPath(path) ==
    IF Name(path[2]) = "cloud"
    THEN Join(Prefix, From(path, 2))
    ELSE IF Names(Slice(path, 1, 3)) = <<"client", "ssh", "wrapper">>
    THEN Join(Prefix, From(path, 3))
    ELSE Join(Prefix, From(path, 1))

\* the integration/ssh branch of line 182 without the rename to `wrapper`
PytestNewPathKeepingSsh(path) ==
    IF Name(path[4]) = "cloud"
    THEN Join(<<Dir("tests"), path[3]>>, From(path, 4))
    ELSE IF Names(Slice(path, 0, 4)) = <<"tests", "pytests", "integration", "ssh">>
    THEN Join(<<Dir("tests"), Dir("integration"), Dir("ssh")>>, From(path, 4))
    ELSE IF Names(Slice(path, 0, 6)) =
            <<"tests", "pytests", "unit", "client", "ssh", "wrapper">>
    THEN Join(<<Dir("tests"), Dir("unit"), Dir("wrapper")>>, From(path, 6))
    ELSE Join(<<Dir("tests")>>, From(path, 2))

\* lines 175-194; the caller has checked that parts[3] exists
PytestNewPath(path) ==
    IF Name(path[4]) = "cloud"
    THEN Join(<<Dir("tests"), path[3]>>, From(path, 4))
    ELSE IF Names(Slice(path, 0, 4)) = <<"tests", "pytests", "integration", "ssh">>
    THEN Join(<<Dir("tests"), Dir("integration"), Dir("wrapper")>>, From(path, 4))
    ELSE IF Names(Slice(path, 0, 6)) =
            <<"tests", "pytests", "unit", "client", "ssh", "wrapper">>
    THEN Join(<<Dir("tests"), Dir("unit"), Dir("wrapper")>>, From(path, 6))
    ELSE Join(<<Dir("tests")>>, From(path, 2))

\* line 203
NonPytestNewPath(path) == Join(<<Dir("tests"), path[2]>>, From(path, 3))

\* line 208
PytestSupportNewPath(path) == Join(<<Dir("tests"), Dir("support")>>, From(path, 3))

\* line 212
DocNewPath(path) == Join(<<Dir("docs")>>, From(path, 1))

\* ------------------------------------------------------------- loop bodies
\* path.parts[i] is evaluated first in a loop body and raises IndexError on a
\* path that has no such part
Raise(t, exc) == [t EXCEPT !.err = exc]

\* lines 160-170
ModulesBody(t, path) ==
    IF Len(path) < 2 THEN Raise(t, "IndexError")
    ELSE Rename(t, path, ModuleNewPath(path))

\* lines 174-195 with the disambiguation branch taken on every call
PytestsBodyAlwaysAvoiding(t, path) ==
    IF Len(path) < 4 THEN Raise(t, "IndexError")
    ELSE Rename(Rename(t, PytestNewPath(path), WithStemSuffixed(PytestNewPath(path), "_old")),
                path, WithStemSuffixed(PytestNewPath(path), "_pytest"))

\* lines 174-195
PytestsBody(t, path) ==
    IF Len(path) < 4 THEN Raise(t, "IndexError")
    ELSE RenamePotentiallyCollidingTest(t, path, PytestNewPath(path))

\* lines 199-204 without the `continue` of line 201
NonPytestsBodyWithoutContinue(t, path) ==
    RenamePotentiallyCollidingTest(t, path, NonPytestNewPath(path))

\* lines 199-204
NonPytestsBody(t, path) ==
    IF Name(path[3]) # "cloud" THEN t
    ELSE RenamePotentiallyCollidingTest(t, path, NonPytestNewPath(path))

\* lines 207-208
PytestSupportBody(t, path) == Rename(t, path, PytestSupportNewPath(path))

\* lines 211-212
DocBody(t, path) == Rename(t, path, DocNewPath(path))

\* ------------------------------------------------------------------ state
\* last: the assignment the latest loop body or call made (op, old, new) and
\* the final value of the local avoid_collisions of that call
NoCall == [op |-> "none", old |-> <<>>, new |-> <<>>, avoid |-> FALSE]

Called(op, old, new, avoid) == [op |-> op, old |-> old, new |-> new, avoid |-> avoid]

\* an entry of the outstanding-issues section: whether it is printed and the
\* items its list renders
NoEntry == [shown |-> FALSE, items |-> {}]

\* nothing printed yet
NoSummary ==
    [ printed |-> FALSE, paths |-> EmptyMap, outstanding |-> FALSE,
      fix_required |-> NoEntry, rewrite_modules |-> NoEntry, rewrite_callers |-> NoEntry,
      hooks |-> NoEntry, non_pytests |-> NoEntry, next_steps |-> {} ]

\* no rewrite pass has started while the table is built
BeforeRewrite ==
    /\ pc = "build"
    /\ tree = <<>>
    /\ passes = 0
    /\ utils_info = {}
    /\ sites = <<>>
    /\ file_imports = {}
    /\ visited = 0
    /\ utils_res = EmptyUtilsRes
    /\ dunder_utils_res = EmptyUtilsRes
    /\ failing_hooks = {}
    /\ summary = NoSummary

Init ==
    /\ result \in {r \in SUBSET Universe : Cardinality(r) \in 1..MaxResult}
    /\ exists \in SUBSET result
    /\ avoid_collisions \in BOOLEAN
    /\ saltext_name \in SaltextNames
    /\ renames = EmptyMap
    /\ conflicts = EmptyMap
    /\ processed = {}
    /\ err = "none"
    /\ last = NoCall
    /\ calls = 0
    /\ BeforeRewrite

\* the table a loop body or a call leaves behind
Commit(t) ==
    /\ renames' = t.renames
    /\ conflicts' = t.conflicts
    /\ err' = t.err

Frame == UNCHANGED <<result, exists, avoid_collisions, saltext_name, calls, rewrite_vars>>

\* one iteration of `for path in self.modules`
ModulesStep(path) ==
    /\ err = "none"
    /\ path \in modules \ processed
    /\ processed' = processed \cup {path}
    /\ Commit(ModulesBody(Table, path))
    /\ last' = IF Len(path) < 2 THEN NoCall
                ELSE Called("_rename", path, ModuleNewPath(path), FALSE)
    /\ Frame

\* one iteration of `for path in self.pytests`
PytestsStep(path) ==
    /\ err = "none"
    /\ modules \subseteq processed
    /\ path \in pytests \ processed
    /\ processed' = processed \cup {path}
    /\ Commit(PytestsBody(Table, path))
    /\ last' = IF Len(path) < 4 THEN NoCall
                ELSE Called("_rename_potentially_colliding_test", path, PytestNewPath(path),
                            Escalated(Table, path, PytestNewPath(path)))
    /\ Frame

\* one iteration of `for path in self.non_pytests`
NonPytestsStep(path) ==
    /\ err = "none"
    /\ modules \cup pytests \subseteq processed
    /\ path \in non_pytests \ processed
    /\ processed' = processed \cup {path}
    /\ Commit(NonPytestsBody(Table, path))
    /\ last' = IF Name(path[3]) # "cloud" THEN NoCall
                ELSE Called("_rename_potentially_colliding_test", path, NonPytestNewPath(path),
                            Escalated(Table, path, NonPytestNewPath(path)))
    /\ Frame

\* one iteration of `for path in self.pytest_support`
PytestSupportStep(path) ==
    /\ err = "none"
    /\ modules \cup pytests \cup non_pytests \subseteq processed
    /\ path \in pytest_support \ processed
    /\ processed' = processed \cup {path}
    /\ Commit(PytestSupportBody(Table, path))
    /\ last' = Called("_rename", path, PytestSupportNewPath(path), FALSE)
    /\ Frame

\* one iteration of `for path in self.doc`
DocStep(path) ==
    /\ err = "none"
    /\ modules \cup pytests \cup non_pytests \cup pytest_support \subseteq processed
    /\ path \in doc \ processed
    /\ processed' = processed \cup {path}
    /\ Commit(DocBody(Table, path))
    /\ last' = Called("_rename", path, DocNewPath(path), FALSE)
    /\ Frame

Next ==
    \/ \E path \in Universe : ModulesStep(path)
    \/ \E path \in Universe : PytestsStep(path)
    \/ \E path \in Universe : NonPytestsStep(path)
    \/ \E path \in Universe : PytestSupportStep(path)
    \/ \E path \in Universe : DocStep(path)

Spec == Init /\ [][Next]_vars

\* __post_init__ has returned
Built ==
    /\ err = "none"
    /\ modules \cup pytests \cup non_pytests \cup pytest_support \cup doc \subseteq processed

\* ------------------------------------------------ the build on every shape
\* The build on candidate paths of every shape the category rules tell
\* apart, short paths included.
MaxClassified == 2

ClassifyUniverse ==
    { <<Dir("salt"), Dir("modules"), Py("x")>>,
      <<Dir("tests"), Dir("pytests"), Py("conftest")>>,
      <<Dir("tests"), Dir("pytests"), Dir("unit"), Dir("modules"), Py("x")>>,
      <<Dir("tests"), Dir("pytests"), Dir("unit"), Dir("cloud"), Dir("clouds"), Py("x")>>,
      <<Dir("tests"), Dir("pytests"), Dir("integration"), Dir("ssh"), Py("x")>>,
      <<Dir("tests"), Dir("pytests"), Dir("unit"), Dir("client"), Dir("ssh"),
        Dir("wrapper"), Py("x")>>,
      <<Dir("tests"), Dir("unit"), Dir("modules"), Py("x")>>,
      <<Dir("tests"), Dir("integration"), Dir("cloud"), Dir("clouds"), Py("x")>>,
      <<Dir("tests"), Dir("support"), Dir("pytest"), Py("x")>>,
      <<Dir("doc"), Dir("ref"), Rst("x")>> }

InitClassify ==
    /\ result \in {r \in SUBSET ClassifyUniverse : Cardinality(r) \in 1..MaxClassified}
    /\ exists \in SUBSET result
    /\ avoid_collisions \in BOOLEAN
    /\ saltext_name \in SaltextNames
    /\ renames = EmptyMap
    /\ conflicts = EmptyMap
    /\ processed = {}
    /\ err = "none"
    /\ last = NoCall
    /\ calls = 0
    /\ BeforeRewrite

NextClassify ==
    \/ \E path \in ClassifyUniverse : ModulesStep(path)
    \/ \E path \in ClassifyUniverse : PytestsStep(path)
    \/ \E path \in ClassifyUniverse : NonPytestsStep(path)
    \/ \E path \in ClassifyUniverse : PytestSupportStep(path)
    \/ \E path \in ClassifyUniverse : DocStep(path)

SpecClassify == InitClassify /\ [][NextClassify]_vars

\* ------------------------------------------------------ the import rewriter
\* Module names and string literals are texts: tuples of characters, so that
\* `x in value` and str.replace are computed on characters.  Spell gives the
\* characters of the words the model uses.
Spell(word) ==
    CASE word = "salt" -> <<"s", "a", "l", "t">>
      [] word = "saltext" -> <<"s", "a", "l", "t", "e", "x", "t">>
      [] word = "modules" -> <<"m", "o", "d", "u", "l", "e", "s">>
      [] word = "cloud" -> <<"c", "l", "o", "u", "d">>
      [] word = "clouds" -> <<"c", "l", "o", "u", "d", "s">>
      [] word = "x" -> <<"x">>
      [] word = "vault" -> <<"v", "a", "u", "l", "t">>
      [] word = "basalt" -> <<"b", "a", "s", "a", "l", "t">>
      [] word = "tests" -> <<"t", "e", "s", "t", "s">>
      [] word = "support" -> <<"s", "u", "p", "p", "o", "r", "t">>
      [] word = "pytest" -> <<"p", "y", "t", "e", "s", "t">>
      [] word = "mock" -> <<"m", "o", "c", "k">>
      [] word = "unittest" -> <<"u", "n", "i", "t", "t", "e", "s", "t">>
      [] word = "f" -> <<"f">>
      [] word = "utils" -> <<"u", "t", "i", "l", "s">>
      [] word = "foo" -> <<"f", "o", "o">>
      [] word = "other" -> <<"o", "t", "h", "e", "r">>
      [] word = "bar" -> <<"b", "a", "r">>

\* ".".join(names)
RECURSIVE Dotted(_)
Dotted(names) ==
    IF names = <<>> THEN <<>>
    ELSE IF Len(names) = 1 THEN Spell(names[1])
    ELSE Spell(names[1]) \o <<".">> \o Dotted(Tail(names))

\* path.with_suffix("").parts
WithoutSuffixParts(path) ==
    [i \in 1..Len(path) |-> IF i = Len(path) THEN path[i][1] ELSE Name(path[i])]

StartsWith(text, pat) == Len(pat) <= Len(text) /\ SubSeq(text, 1, Len(pat)) = pat

\* pat in text
RECURSIVE Contains(_, _)
Contains(text, pat) ==
    IF Len(text) < Len(pat) THEN FALSE
    ELSE StartsWith(text, pat) \/ Contains(Tail(text), pat)

\* text.replace(pat, rep): every occurrence, left to right, not overlapping
RECURSIVE Replace(_, _, _)
Replace(text, pat, rep) ==
    IF Len(text) < Len(pat) \/ pat = <<>> THEN text
    ELSE IF StartsWith(text, pat)
    THEN rep \o Replace(SubSeq(text, Len(pat) + 1, Len(text)), pat, rep)
    ELSE <<text[1]>> \o Replace(Tail(text), pat, rep)

\* Migration.module_imports as the pairs (old name, new name)
module_imports ==
    { <<Dotted(WithoutSuffixParts(mod)), Dotted(Tail(WithoutSuffixParts(renames[mod])))>> :
        mod \in modules }

\* rewrite_module_imports, lines 66-79: the module selected and the name it
\* is renamed to, for plain references (from_import false) ...
ModuleRename(mod_path) ==
    LET mod == Tail(WithoutSuffixParts(mod_path))
    IN  <<Dotted(<<"salt">> \o mod), Dotted(<<"saltext", saltext_name>> \o mod)>>

\* ... and for `from <parent> import <leaf>` (from_import true): the parent
\* package selected, the leaf the filter asks for and the new parent
FromImportRename(mod_path) ==
    LET mod == Tail(WithoutSuffixParts(mod_path))
        mod_parent == SubSeq(mod, 1, Len(mod) - 1)
    IN  <<Dotted(<<"salt">> \o mod_parent), Spell(mod[Len(mod)]),
          Dotted(<<"saltext", saltext_name>> \o mod_parent)>>

\* rewrite_tests_support_imports, lines 85-96: the fixed mock rename and one
\* rename per relocated tests/support/pytest module
TestsSupportRenames ==
    {<<Dotted(<<"tests", "support", "mock">>), Dotted(<<"unittest", "mock">>)>>}
    \cup { <<Dotted(WithoutSuffixParts(mod_path)), Dotted(WithoutSuffixParts(renames[mod_path]))>> :
             mod_path \in pytest_support \cap DOMAIN renames }

\* A reference of the new tree: `import <text>` or a use of that module
\* (kind "import"), `from <text> import <leaf>` (kind "from"), or a string
\* argument of patch() / patch.dict() (kind "patch").  origin is the
\* candidate path the reference named when it was written.
Ref(kind, text, leaf, origin) ==
    [kind |-> kind, text |-> text, leaf |-> leaf, origin |-> origin]

\* select_module(name).rename(new) on one reference, taken to select the
\* references to exactly that module
RenameModuleIn(ref, name, new) ==
    IF ref.kind = "import" /\ ref.text = name THEN [ref EXCEPT !.text = new] ELSE ref

\* one reference after rewrite_module_imports
RewriteModuleImportsRef(ref) ==
    IF \E m \in modules : ref.kind = "import" /\ ref.text = ModuleRename(m)[1]
    THEN LET m == CHOOSE m \in modules : ref.text = ModuleRename(m)[1]
         IN  RenameModuleIn(ref, ModuleRename(m)[1], ModuleRename(m)[2])
    ELSE IF \E m \in modules : /\ ref.kind = "from"
                               /\ ref.text = FromImportRename(m)[1]
                               /\ ref.leaf = FromImportRename(m)[2]
    THEN LET m == CHOOSE m \in modules : /\ ref.text = FromImportRename(m)[1]
                                         /\ ref.leaf = FromImportRename(m)[2]
         IN  [ref EXCEPT !.text = FromImportRename(m)[3]]
    ELSE ref

\* one reference after rewrite_tests_support_imports
RewriteTestsSupportRef(ref) ==
    IF \E r \in TestsSupportRenames : ref.kind = "import" /\ ref.text = r[1]
    THEN LET r == CHOOSE r \in TestsSupportRenames : ref.text = r[1]
         IN  RenameModuleIn(ref, r[1], r[2])
    ELSE ref

\* _replace_patch_arglist on one string: the results for each old import
\* that next(...) can yield (module_imports is iterated in set order), the
\* string itself when none is contained
PatchArglistResults(ref) ==
    IF ref.kind = "patch" /\ \E mi \in module_imports : Contains(ref.text, mi[1])
    THEN { [ref EXCEPT !.text = Replace(ref.text, mi[1], mi[2])] :
             mi \in {x \in module_imports : Contains(ref.text, x[1])} }
    ELSE {ref}

MaxRefs == 1

MaxPasses == 2

PatchNames == {"vault", "basalt"}

PatchUniverse ==
    { <<Dir("salt"), Dir("modules"), Py("x")>>,
      <<Dir("salt"), Dir("cloud"), Dir("clouds"), Py("x")>>,
      <<Dir("tests"), Dir("support"), Dir("pytest"), Py("x")>> }

\* the references to the candidate modules that the new tree can hold
RefUniverse ==
    { Ref("import", Dotted(<<"salt", "modules", "x">>), <<>>,
          <<Dir("salt"), Dir("modules"), Py("x")>>),
      Ref("import", Dotted(<<"salt", "cloud", "clouds", "x">>), <<>>,
          <<Dir("salt"), Dir("cloud"), Dir("clouds"), Py("x")>>),
      Ref("from", Dotted(<<"salt", "modules">>), Spell("x"),
          <<Dir("salt"), Dir("modules"), Py("x")>>),
      Ref("patch", Dotted(<<"salt", "modules", "x", "f">>), <<>>,
          <<Dir("salt"), Dir("modules"), Py("x")>>),
      Ref("import", Dotted(<<"tests", "support", "mock">>), <<>>, <<>>),
      Ref("import", Dotted(<<"tests", "support", "pytest", "x">>), <<>>,
          <<Dir("tests"), Dir("support"), Dir("pytest"), Py("x")>>) }

RECURSIVE SeqsUpTo(_, _)
SeqsUpTo(S, n) ==
    IF n = 0 THEN {<<>>}
    ELSE SeqsUpTo(S, n - 1) \cup {Append(q, e) : q \in SeqsUpTo(S, n - 1), e \in S}

InitPatch ==
    /\ result \in (SUBSET PatchUniverse) \ {{}}
    /\ exists = {}
    /\ avoid_collisions = FALSE
    /\ saltext_name \in PatchNames
    /\ renames = EmptyMap
    /\ conflicts = EmptyMap
    /\ processed = {}
    /\ err = "none"
    /\ last = NoCall
    /\ calls = 0
    /\ pc = "build"
    /\ tree \in SeqsUpTo(RefUniverse, MaxRefs) \ {<<>>}
    /\ passes = 0
    /\ utils_info = {}
    /\ sites = <<>>
    /\ file_imports = {}
    /\ visited = 0
    /\ utils_res = EmptyUtilsRes
    /\ dunder_utils_res = EmptyUtilsRes
    /\ failing_hooks = {}
    /\ summary = NoSummary

PatchFrame ==
    UNCHANGED <<result, exists, avoid_collisions, saltext_name, renames, conflicts,
                processed, err, last, calls, utils_info, sites, file_imports, visited,
                utils_res, dunder_utils_res, failing_hooks, summary>>

\* the pass of line 407 started while __post_init__ is still in its loops
RewriteModuleImportsDuringBuild ==
    /\ pc \in {"build", "rewrite_module_imports"}
    /\ passes < MaxPasses
    /\ tree' = [i \in DOMAIN tree |-> RewriteModuleImportsRef(tree[i])]
    /\ pc' = "rewrite_tests_support_imports"
    /\ UNCHANGED passes
    /\ PatchFrame

\* ExtensionMigrate._rewrite_module_imports (line 407), the whole pass
RewriteModuleImports ==
    /\ Built
    /\ pc \in {"build", "rewrite_module_imports"}
    /\ passes < MaxPasses
    /\ tree' = [i \in DOMAIN tree |-> RewriteModuleImportsRef(tree[i])]
    /\ pc' = "rewrite_tests_support_imports"
    /\ UNCHANGED passes
    /\ PatchFrame

\* ExtensionMigrate._rewrite_tests_support_imports (line 408), the whole pass
RewriteTestsSupportImports ==
    /\ pc = "rewrite_tests_support_imports"
    /\ tree' = [i \in DOMAIN tree |-> RewriteTestsSupportRef(tree[i])]
    /\ pc' = "rewrite_patch_arglist"
    /\ UNCHANGED passes
    /\ PatchFrame

\* ExtensionMigrate._rewrite_patch_arglist (line 409), the whole pass; it
\* ends one run of the import rewriter; execute goes on to line 410, or the
\* rewriter is run on the tree again
RewritePatchArglist ==
    /\ pc = "rewrite_patch_arglist"
    /\ \E t \in [DOMAIN tree -> UNION {PatchArglistResults(tree[i]) : i \in DOMAIN tree}] :
          /\ \A i \in DOMAIN tree : t[i] \in PatchArglistResults(tree[i])
          /\ tree' = t
    /\ passes' = passes + 1
    /\ pc' \in {"rewrite_utils"} \cup
               (IF passes + 1 < MaxPasses THEN {"rewrite_module_imports"} ELSE {})
    /\ PatchFrame

NextPatch ==
    \/ \E path \in PatchUniverse : ModulesStep(path)
    \/ \E path \in PatchUniverse : PytestSupportStep(path)
    \/ RewriteModuleImports
    \/ RewriteTestsSupportImports
    \/ RewritePatchArglist

SpecPatch == InitPatch /\ [][NextPatch]_vars

\* ------------------------------------------------ the non-pytest tests left
\* lines 304-306: the path a non-pytest test ends on
FinalPath(path) == IF path \in DOMAIN renames THEN renames[path] ELSE path

\* lines 308-313 where the old path of the item is not tested
TakenByPytestAnyOld(path, items) ==
    \E old_path \in items : renames[old_path] = path

\* lines 308-313: the for/else over renames.items() breaks on an item whose
\* new path is the path and whose old path is a pytest-style candidate
TakenByPytest(path, items) ==
    \E old_path \in items : renames[old_path] = path /\ old_path \in pytests

\* Migration.non_pytests_after_migration, with dest the paths that exist
\* under saltext_path when the property is read
non_pytests_after_migration(dest) ==
    { FinalPath(path) :
        path \in {p \in non_pytests : /\ ~TakenByPytest(FinalPath(p), DOMAIN renames)
                                      /\ FinalPath(p) \in dest} }

\* ---------------------------------------------------- the dunder-call pass
\* A utility file of either tree: the tree it is in, its stem, the name it
\* declares with __virtualname__ ("" when it declares none) and whether it
\* reads a Salt dunder.  UtilsEntry is the utils_info entry that
\* _get_utils_module_info builds for it (lines 269-277); path is the key of
\* the entry and import is kept as the tuple of the dotted name's parts.
UtilsEntry(tr, stem, declared, uses) ==
    [ path |-> <<tr, stem>>,
      modname |-> stem,
      virtualname |-> IF declared = "" THEN stem ELSE declared,
      uses_salt_dunders |-> uses,
      migrated |-> (tr = "saltext"),
      import |-> IF tr = "saltext" THEN <<"saltext", saltext_name, "utils", stem>>
                 ELSE <<"salt", "utils", stem>> ]

UtilsNames == {"foo", "other"}

MaxUtils == 2

MaxSites == 2

\* every utils_info the two trees can give: at most one file per tree and
\* stem
UtilsInfos ==
    LET files == {"saltext", "salt"} \X UtilsNames
        facts == ({""} \cup UtilsNames) \X BOOLEAN
    IN  UNION { { {UtilsEntry(p[1], p[2], f[p][1], f[p][2]) : p \in present} :
                    f \in [present -> facts] } :
                present \in {ps \in SUBSET files : Cardinality(ps) <= MaxUtils} }

\* UtilsMigrator.get_utils_module_details: the entries it can return for a
\* name, none when it raises.  The path tested at line 293 is built from
\* salt.utils.<name> for both trees (line 291), and <src>/salt/utils/ is
\* not part of a destination tree, so the destination tree is searched by
\* declared name only; the search of line 296 follows the order the files
\* were listed in, which the file system decides.
get_utils_module_details(info, name) ==
    LET declaring(tr) == {e \in info : e.path[1] = tr /\ e.virtualname = name}
        exact(tr) == {e \in info : e.path = <<tr, name>>}
    IN  IF declaring("saltext") # {} THEN declaring("saltext")
        ELSE IF exact("salt") # {} THEN exact("salt")
        ELSE declaring("salt")

\* the files of the destination tree that hold a __utils__ call, relative to
\* the destination root
Callers ==
    { <<Dir("src"), Dir("saltext"), Dir(saltext_name), Dir("modules"), Py("x")>>,
      <<Dir("src"), Dir("saltext"), Dir(saltext_name), Dir("utils"), Py("u")>> }

NoDetails == [path |-> <<>>]

\* a call site `__utils__["<dunder_mod_func>"](<function_arguments>)<trailing>`
\* as captured by the pattern of lines 377-386
DunderCall(file, dunder_mod_func) ==
    [ file |-> file, form |-> "dunder", dunder_mod_func |-> dunder_mod_func,
      callee |-> <<>>, function_arguments |-> <<"a">>, trailing |-> <<".k">>,
      details |-> NoDetails ]

\* dunder_mod_func.split("."): module and function, or a key without a dot
DunderKeys == {<<name, "f">> : name \in UtilsNames} \cup {<<"foo">>}

\* the state the callback works on
Pass == [ sites |-> sites, file_imports |-> file_imports, visited |-> visited,
          utils_res |-> utils_res, err |-> err ]

\* lines 315-320: the table a site is recorded in, "" for none
TableFor(file, details) ==
    IF ~details.uses_salt_dunders THEN ""
    ELSE IF details.migrated THEN "rewrite"
    ELSE IF Tail(file)[3] = Dir("utils") THEN "missed_critical"
    ELSE "missed"

\* <table>[key].add(value) on a defaultdict(set) that replaces the set
AddToReplacing(d, key, value) == Put(d, key, {value})

\* <table>[key].add(value) on a defaultdict(set)
AddTo(d, key, value) ==
    Put(d, key, (IF key \in DOMAIN d THEN d[key] ELSE {}) \cup {value})

\* lines 313-328 that never take the critical branch
RecordIgnoringCaller(res, file, details) ==
    LET tgt == IF TableFor(file, details) = "missed_critical" THEN "missed"
               ELSE TableFor(file, details)
    IN  IF tgt = "" THEN res
        ELSE [res EXCEPT ![tgt] = AddTo(res[tgt], file, details.import)]

\* lines 313-328: the issue recorded for a site
Record(res, file, details) ==
    LET tgt == TableFor(file, details)
    IN  IF tgt = "" THEN res
        ELSE [res EXCEPT ![tgt] = AddTo(res[tgt], file, details.import)]

\* lines 341-366 without capture["trailing"]
ReplacementWithoutTrailing(site, details) ==
    [site EXCEPT !.form = "direct",
                 !.callee = details.import \o <<site.dunder_mod_func[2]>>,
                 !.trailing = <<>>]

\* lines 341-366: the call node that replaces the site
Replacement(site, details) ==
    [site EXCEPT !.form = "direct",
                 !.callee = details.import \o <<site.dunder_mod_func[2]>>]

\* lines 313-366 where a recorded issue ends the pass
FixWithAbortingOnIssue(u, details) ==
    LET i == u.visited + 1
        site == [u.sites[i] EXCEPT !.details = details]
    IN  IF details.uses_salt_dunders
        THEN [u EXCEPT !.sites[i] = site, !.err = "Issue"]
        ELSE [u EXCEPT !.sites[i] = Replacement(site, details),
                       !.file_imports = @ \cup {<<site.file, details.import>>},
                       !.visited = i]

\* lines 313-366: fix_dunder_utils_calls once details is resolved
FixWith(u, details) ==
    LET i == u.visited + 1
        site == [u.sites[i] EXCEPT !.details = details]
        res == Record(u.utils_res, site.file, details)
    IN  IF details.uses_salt_dunders /\ ~details.migrated
        THEN [u EXCEPT !.sites[i] = site, !.utils_res = res, !.visited = i]
        ELSE [u EXCEPT !.sites[i] = Replacement(site, details),
                       !.file_imports = @ \cup {<<site.file, details.import>>},
                       !.utils_res = res,
                       !.visited = i]

\* line 299: RuntimeError leaves the callback
LookupFailed(u) == [u EXCEPT !.err = "RuntimeError"]

\* UtilsMigrator.fix_dunder_utils_calls on the next site: the states it can
\* leave.  The callback works on the one fixer object of rewrite_utils; the
\* pass is followed up to the first exception that leaves the callback.
fix_dunder_utils_calls(u) ==
    LET site == u.sites[u.visited + 1]
        key == site.dunder_mod_func
    IN  IF Len(key) # 2 THEN {[u EXCEPT !.err = "ValueError"]}
        ELSE IF get_utils_module_details(utils_info, key[1]) = {} THEN {LookupFailed(u)}
        ELSE {FixWith(u, details) : details \in get_utils_module_details(utils_info, key[1])}

InitUtils ==
    /\ result = {<<Dir("salt"), Dir("modules"), Py("x")>>, <<Dir("salt"), Dir("utils"), Py("u")>>}
    /\ exists = {}
    /\ avoid_collisions = FALSE
    /\ saltext_name \in SaltextNames
    /\ renames = ModulesBody(ModulesBody([renames |-> EmptyMap, conflicts |-> EmptyMap,
                                          err |-> "none"],
                                         <<Dir("salt"), Dir("modules"), Py("x")>>),
                             <<Dir("salt"), Dir("utils"), Py("u")>>).renames
    /\ conflicts = EmptyMap
    /\ processed = result
    /\ err = "none"
    /\ last = NoCall
    /\ calls = 0
    /\ pc = "rewrite_utils"
    /\ tree = <<>>
    /\ passes = 1
    /\ utils_info \in UtilsInfos
    /\ sites \in { [i \in DOMAIN q |-> DunderCall(q[i][1], q[i][2])] :
                     q \in SeqsUpTo(Callers \X DunderKeys, MaxSites) \ {<<>>} }
    /\ file_imports = {}
    /\ visited = 0
    /\ utils_res = EmptyUtilsRes
    /\ dunder_utils_res = EmptyUtilsRes
    /\ failing_hooks = {}
    /\ summary = NoSummary

UtilsFrame ==
    UNCHANGED <<result, exists, avoid_collisions, saltext_name, renames, conflicts,
                processed, last, calls, tree, passes, utils_info>>

\* the modifier of rewrite_utils on the next call site (lines 388-389)
FixDunderUtilsCalls ==
    /\ pc = "rewrite_utils"
    /\ err = "none"
    /\ visited < Len(sites)
    /\ \E u \in fix_dunder_utils_calls(Pass) :
          /\ sites' = u.sites
          /\ file_imports' = u.file_imports
          /\ visited' = u.visited
          /\ utils_res' = u.utils_res
          /\ err' = u.err
    /\ UNCHANGED <<pc, dunder_utils_res, failing_hooks, summary>>
    /\ UtilsFrame

\* rewrite_utils returns and line 644 stores the result
RewriteUtilsReturn ==
    /\ pc = "rewrite_utils"
    /\ err = "none"
    /\ visited = Len(sites)
    /\ dunder_utils_res' = utils_res
    /\ pc' = "run_pre_commit"
    /\ UNCHANGED <<sites, file_imports, visited, utils_res, err, failing_hooks, summary>>
    /\ UtilsFrame

\* a later step of execute (lines 411-413) returns
LaterStep(at, then) ==
    /\ pc = at
    /\ err = "none"
    /\ pc' = then
    /\ UNCHANGED <<sites, file_imports, visited, utils_res, err, dunder_utils_res>>
    /\ UtilsFrame

\* the hooks pre-commit can report as failing
Hooks == {"ruff"}

\* ExtensionMigrate._run_pre_commit: the hooks pass, or pre-commit keeps
\* failing and line 718 stores the parsed failing hooks
RunPreCommit ==
    /\ LaterStep("run_pre_commit", "print_summary")
    /\ failing_hooks' \in SUBSET Hooks
    /\ UNCHANGED summary

\* the properties of DunderUtilsMigrationResult: a table without its empty
\* sets (missed, missed_critical, rewrite) ...
NonEmptySets(d) == [k \in {f \in DOMAIN d : d[f] # {}} |-> d[k]]

\* ... and a table turned round, from module to the files calling it
\* (missed_mods, missed_critical_mods, rewrite_mods)
Mods(d) ==
    [mod \in UNION {d[f] : f \in DOMAIN d} |-> {f \in DOMAIN d : mod \in d[f]}]

\* lines 750-773: the line printed for one candidate path
MigratedPath(path) ==
    LET new_name == IF path \notin DOMAIN renames THEN path ELSE renames[path]
        res == dunder_utils_res
    IN  [ kind |-> IF path \notin DOMAIN renames THEN "Keep"
                   ELSE IF path \in DOMAIN conflicts THEN "Rename (CONFLICT)"
                   ELSE "Rename",
          new_name |-> new_name,
          note |-> IF \/ new_name \in DOMAIN NonEmptySets(res.missed_critical)
                      \/ new_name \in DOMAIN NonEmptySets(res.rewrite)
                      \/ Tail(WithoutSuffixParts(new_name)) \in DOMAIN Mods(res.rewrite)
                   THEN "Action required"
                   ELSE IF new_name \in DOMAIN NonEmptySets(res.missed)
                   THEN "Action recommended"
                   ELSE "" ]

Entry(cond, items) == IF cond THEN [shown |-> TRUE, items |-> items] ELSE NoEntry

\* lines 781-788: the entry is printed when missed_critical is not empty
\* and render_list iterates missed_mods
FixRequired(res) ==
    Entry(NonEmptySets(res.missed_critical) # EmptyMap, DOMAIN Mods(res.missed))

\* ExtensionMigrate._print_summary, with dest the paths that exist under
\* saltext_path
Summary(dest) ==
    LET res == dunder_utils_res
        left == non_pytests_after_migration(dest)
        outstanding == \/ NonEmptySets(res.missed) # EmptyMap
                       \/ NonEmptySets(res.rewrite) # EmptyMap
                       \/ failing_hooks # {}
                       \/ left # {}
        rewritten == outstanding /\ NonEmptySets(res.rewrite) # EmptyMap
    IN  [ printed |-> TRUE,
          paths |-> [path \in result |-> MigratedPath(path)],
          outstanding |-> outstanding,
          fix_required |-> IF outstanding THEN FixRequired(res) ELSE NoEntry,
          rewrite_modules |-> Entry(rewritten, DOMAIN Mods(res.rewrite)),
          rewrite_callers |-> Entry(rewritten, DOMAIN NonEmptySets(res.rewrite)),
          hooks |-> Entry(outstanding /\ failing_hooks # {}, failing_hooks),
          non_pytests |-> Entry(outstanding /\ left # {}, left),
          next_steps |->
              (IF outstanding /\ NonEmptySets(res.missed_critical) # EmptyMap
               THEN {"Fix __utils__ dunder in utils"} ELSE {})
              \cup (IF rewritten
                    THEN {"Remove global dunders from utils modules",
                          "Update utils calls after removing dunders"} ELSE {})
              \cup (IF outstanding /\ failing_hooks # {}
                    THEN {"Fix above-mentioned pre-commit hooks"} ELSE {})
              \cup (IF outstanding /\ left # {}
                    THEN {"Migrate or skip non-pytests"} ELSE {}) ]

PrintSummary ==
    /\ LaterStep("print_summary", "cleanup")
    /\ \E dest \in SUBSET {FinalPath(p) : p \in non_pytests} : summary' = Summary(dest)
    /\ UNCHANGED failing_hooks

Cleanup ==
    /\ LaterStep("cleanup", "done")
    /\ UNCHANGED <<failing_hooks, summary>>

NextUtils ==
    \/ FixDunderUtilsCalls
    \/ RewriteUtilsReturn
    \/ RunPreCommit
    \/ PrintSummary
    \/ Cleanup

SpecUtils == InitUtils /\ [][NextUtils]_vars

\* ------------------------------------------------------------ the whole run
\* ExtensionMigrate.execute from the construction of the Migration (line
\* 380) to its last step: the build, the three passes of the import
\* rewriter, the dunder-call pass, the hooks, the summary and the cleanup.
RunUniverse ==
    { <<Dir("salt"), Dir("modules"), Py("x")>>,
      <<Dir("tests"), Dir("pytests"), Dir("unit"), Py("x")>>,
      <<Dir("tests"), Dir("unit"), Py("x")>> }

RunRefs ==
    { Ref("import", Dotted(<<"salt", "modules", "x">>), <<>>,
          <<Dir("salt"), Dir("modules"), Py("x")>>),
      Ref("patch", Dotted(<<"salt", "modules", "x", "f">>), <<>>,
          <<Dir("salt"), Dir("modules"), Py("x")>>) }

RunUtils ==
    { UtilsEntry("salt", "foo", "", TRUE), UtilsEntry("saltext", "other", "", TRUE) }

InitRun ==
    /\ result \in (SUBSET RunUniverse) \ {{}}
    /\ exists \in SUBSET result
    /\ avoid_collisions \in BOOLEAN
    /\ saltext_name \in SaltextNames
    /\ renames = EmptyMap
    /\ conflicts = EmptyMap
    /\ processed = {}
    /\ err = "none"
    /\ last = NoCall
    /\ calls = 0
    /\ pc = "build"
    /\ tree \in {<<ref>> : ref \in RunRefs}
    /\ passes = 0
    /\ utils_info \in SUBSET RunUtils
    /\ sites \in {<<DunderCall(file, <<name, "f">>)>> : file \in Callers, name \in UtilsNames}
    /\ file_imports = {}
    /\ visited = 0
    /\ utils_res = EmptyUtilsRes
    /\ dunder_utils_res = EmptyUtilsRes
    /\ failing_hooks = {}
    /\ summary = NoSummary

NextRun ==
    \/ \E path \in RunUniverse : ModulesStep(path)
    \/ \E path \in RunUniverse : PytestsStep(path)
    \/ \E path \in RunUniverse : NonPytestsStep(path)
    \/ RewriteModuleImports
    \/ RewriteTestsSupportImports
    \/ RewritePatchArglist
    \/ FixDunderUtilsCalls
    \/ RewriteUtilsReturn
    \/ RunPreCommit
    \/ PrintSummary
    \/ Cleanup

SpecRun == InitRun /\ [][NextRun]_vars

\* ------------------------------------------- the build on shared destinations
\* The build on pytest-style paths that share a computed destination, with
\* the destination among the candidates.
OrderUniverse ==
    { <<Dir("tests"), Dir("pytests"), Dir("unit"), Py("x")>>,
      <<Dir("tests"), Dir("pytests"), Dir("unit"), Dir("cloud"), Py("x")>>,
      <<Dir("tests"), Dir("pytests"), Dir("unit"), Py("y")>>,
      <<Dir("tests"), Dir("unit"), Py("x")>> }

InitOrder ==
    /\ result \in (SUBSET OrderUniverse) \ {{}}
    /\ exists \in SUBSET result
    /\ avoid_collisions \in BOOLEAN
    /\ saltext_name \in SaltextNames
    /\ renames = EmptyMap
    /\ conflicts = EmptyMap
    /\ processed = {}
    /\ err = "none"
    /\ last = NoCall
    /\ calls = 0
    /\ BeforeRewrite

NextOrder ==
    \/ \E path \in OrderUniverse : PytestsStep(path)
    \/ \E path \in OrderUniverse : NonPytestsStep(path)

SpecOrder == InitOrder /\ [][NextOrder]_vars

\* ------------------------------------------- the two methods called directly
\* _rename and _rename_potentially_colliding_test applied to arguments of the
\* caller's choice, on the table the earlier calls left
ApiPaths ==
    { <<Dir("tests"), Dir("unit"), Py("x")>>,
      <<Dir("tests"), Dir("unit"), Py("x_pytest")>>,
      <<Dir("tests"), Dir("pytests"), Dir("unit"), Py("x")>> }

InitAssign ==
    /\ result \in (SUBSET ApiPaths) \ {{}}
    /\ exists \in SUBSET result
    /\ avoid_collisions \in BOOLEAN
    /\ saltext_name \in SaltextNames
    /\ renames = EmptyMap
    /\ conflicts = EmptyMap
    /\ processed = {}
    /\ err = "none"
    /\ last = NoCall
    /\ calls = 0
    /\ BeforeRewrite

CallRename(old, new) ==
    /\ err = "none"
    /\ calls < MaxCalls
    /\ calls' = calls + 1
    /\ Commit(Rename(Table, old, new))
    /\ last' = Called("_rename", old, new, FALSE)
    /\ UNCHANGED <<result, exists, avoid_collisions, saltext_name, processed, rewrite_vars>>

CallRenamePotentiallyCollidingTest(old, new) ==
    /\ err = "none"
    /\ calls < MaxCalls
    /\ calls' = calls + 1
    /\ Commit(RenamePotentiallyCollidingTest(Table, old, new))
    /\ last' = Called("_rename_potentially_colliding_test", old, new,
                       Escalated(Table, old, new))
    /\ UNCHANGED <<result, exists, avoid_collisions, saltext_name, processed, rewrite_vars>>

NextAssign ==
    \/ \E old, new \in ApiPaths : CallRename(old, new)
    \/ \E old, new \in ApiPaths : CallRenamePotentiallyCollidingTest(old, new)

SpecAssign == InitAssign /\ [][NextAssign]_vars

TypeOK == err \in {"none", "TargetPathExists", "ValueError", "IndexError", "RuntimeError"}

\* ----------------------------------------------------------- for the claims
\* a loop body or a call has run in this step
Stepped == processed' # processed \/ calls' # calls

AssignStep == Stepped /\ last'.op = "_rename"

PolicyStep == Stepped /\ last'.op = "_rename_potentially_colliding_test"

\* the condition of line 215 for a target, on the table before the step
Collides(new) == new \in result /\ new \in exists /\ new \notin DOMAIN renames

Old(new) == WithStemSuffixed(new, "_old")

Pytest(new) == WithStemSuffixed(new, "_pytest")

\* C1: after a build, no two distinct old paths of renames map to the same
\* new path unless both are keys of conflicts.
C1_UniqueDestinations ==
    Built => \A a, b \in DOMAIN renames :
                (a # b /\ renames[a] = renames[b]) => {a, b} \subseteq DOMAIN conflicts

\* C2: assign(old, new) raises TargetPathExists whenever new is the
\* destination of another recorded rename or exists and is not claimed by a
\* rename, and records old -> new in every other case.
C2_AssignContract ==
    [][AssignStep =>
          LET old == last'.old
              new == last'.new
          IN  IF \/ \E o \in DOMAIN renames : o # old /\ renames[o] = new
                 \/ new \in exists /\ new \notin DOMAIN renames
              THEN err' = "TargetPathExists" /\ renames' = renames
              ELSE err' = "none" /\ renames' = Put(renames, old, new)]_vars

\* C3: an entry of renames, once written, is never changed or removed.
C3_AssignmentImmutable ==
    [][\A p \in DOMAIN renames : p \in DOMAIN renames' /\ renames'[p] = renames[p]]_vars

\* C4 as stated: with avoid_collisions false, once a conflict has been
\* recorded every later assignWithCollisionPolicy call takes the
\* disambiguation branch.
C4_EscalationSticky ==
    [][(PolicyStep /\ ~avoid_collisions /\ DOMAIN conflicts # {}) => last'.avoid]_vars

\* C4 amended: with avoid_collisions false, a call takes the disambiguation
\* branch exactly when its own direct assign collides; a call whose direct
\* target does not collide records old -> new and nothing else, whatever
\* conflicts earlier calls recorded.
C4_EscalationPerCall ==
    [][(PolicyStep /\ ~avoid_collisions) =>
          LET old == last'.old
              new == last'.new
          IN  IF Collides(new)
              THEN /\ conflicts' = Put(conflicts, old, new)
                   /\ err' = "none" => /\ renames'[new] = Old(new)
                                       /\ renames'[old] = Pytest(new)
              ELSE /\ conflicts' = conflicts
                   /\ err' = "none"
                   /\ renames' = Put(renames, old, new)]_vars

\* a call recorded its direct mapping after an earlier call had hit a conflict
C4_Witness ==
    /\ ~avoid_collisions
    /\ err = "none"
    /\ last.op = "_rename_potentially_colliding_test"
    /\ ~last.avoid
    /\ DOMAIN conflicts # {}
    /\ last.old \in DOMAIN renames
    /\ renames[last.old] = last.new

\* C5: a call that takes the disambiguation branch leaves new -> new_old and
\* old -> new_pytest in renames, and old -> new in conflicts when the branch
\* was entered through a conflict; a TargetPathExists of either suffixed
\* assign ends the build with that error, the first assignment kept when the
\* second one raised.
C5_Disambiguation ==
    [][(PolicyStep /\ (avoid_collisions \/ Collides(last'.new))) =>
          LET old == last'.old
              new == last'.new
              afterFirst == Put(renames, new, Old(new))
          IN  /\ conflicts' = IF avoid_collisions THEN conflicts
                              ELSE Put(conflicts, old, new)
              /\ IF Collides(Old(new))
                 THEN err' = "TargetPathExists" /\ renames' = renames
                 ELSE IF /\ Pytest(new) \in result
                         /\ Pytest(new) \in exists
                         /\ Pytest(new) \notin DOMAIN afterFirst
                 THEN err' = "TargetPathExists" /\ renames' = afterFirst
                 ELSE /\ err' = "none"
                      /\ renames' = Put(afterFirst, old, Pytest(new))
                      /\ renames'[new] = Old(new)
                      /\ renames'[old] = Pytest(new)]_vars

\* the branch was entered through a conflict and both suffixed names are in
\* the table
C5_Witness ==
    /\ ~avoid_collisions
    /\ err = "none"
    /\ last.op = "_rename_potentially_colliding_test"
    /\ last.avoid
    /\ last.old \in DOMAIN conflicts
    /\ conflicts[last.old] = last.new
    /\ last.new \in DOMAIN renames
    /\ renames[last.new] = Old(last.new)
    /\ renames[last.old] = Pytest(last.new)

\* C6: assign(old, old) always raises the no-op error and leaves both tables
\* as they were.
C6_NoOpAlwaysValueError ==
    [][(Stepped /\ last'.op # "none" /\ last'.old = last'.new) =>
          /\ err' = "ValueError"
          /\ renames' = renames
          /\ conflicts' = conflicts]_vars

\* C7: every entry (old, new) of renames has old # new.
C7_NoSelfRename == \A p \in DOMAIN renames : renames[p] # p

\* the disambiguation branch was asked to rename a path to itself
\* (old = new_pytest) and refused
C7_Witness ==
    /\ last.op = "_rename_potentially_colliding_test"
    /\ last.old = Pytest(last.new)
    /\ err = "ValueError"
    /\ last.new \in DOMAIN renames
    /\ renames[last.new] = Old(last.new)

\* The build with every loop run in one fixed order.
RECURSIVE RunLoop(_, _, _)
RunLoop(kind, t, todo) ==
    IF todo = {} \/ t.err # "none" THEN t
    ELSE LET path == CHOOSE p \in todo : TRUE
             after == CASE kind = "modules" -> ModulesBody(t, path)
                        [] kind = "pytests" -> PytestsBody(t, path)
                        [] kind = "non_pytests" -> NonPytestsBody(t, path)
                        [] kind = "pytest_support" -> PytestSupportBody(t, path)
                        [] kind = "doc" -> DocBody(t, path)
         IN  RunLoop(kind, after, todo \ {path})

FixedOrderBuild ==
    LET t0 == [renames |-> EmptyMap, conflicts |-> EmptyMap, err |-> "none"]
        t1 == RunLoop("modules", t0, modules)
        t2 == RunLoop("pytests", t1, pytests)
        t3 == RunLoop("non_pytests", t2, non_pytests)
        t4 == RunLoop("pytest_support", t3, pytest_support)
    IN  RunLoop("doc", t4, doc)

Ended == Built \/ err # "none"

\* C8: with avoid_collisions true, the build in any order ends as the build
\* in the fixed order does: the same two tables, or a failure in both.
C8_OrderIndependent ==
    (avoid_collisions /\ Ended) =>
        IF FixedOrderBuild.err = "none"
        THEN /\ err = "none"
             /\ renames = FixedOrderBuild.renames
             /\ conflicts = FixedOrderBuild.conflicts
        ELSE err # "none"

C10_WrapperDestination ==
    \A p \in modules \cap DOMAIN renames :
        Names(Slice(p, 1, 4)) = <<"client", "ssh", "wrapper">> =>
            renames[p] = Join(Prefix, From(p, 3))

\* C11: the destination computed for tests/pytests/<kind>/<rest> is
\* tests/<kind>/<rest without `cloud`> when <rest> starts with `cloud`, else
\* tests/integration/wrapper/<tail> for tests/pytests/integration/ssh/<tail>,
\* else tests/unit/wrapper/<tail> for
\* tests/pytests/unit/client/ssh/wrapper/<tail>, else tests/<kind>/<rest>.
C11_PytestDestination ==
    [][(PolicyStep /\ last'.old \in pytests) =>
          LET old == last'.old
              kind == old[3]
              rest == SubSeq(old, 4, Len(old))
              tests == Dir("tests")
          IN  last'.new =
                IF rest[1] = Dir("cloud")
                THEN <<tests, kind>> \o Tail(rest)
                ELSE IF kind = Dir("integration") /\ rest[1] = Dir("ssh")
                THEN <<tests, Dir("integration"), Dir("wrapper")>> \o Tail(rest)
                ELSE IF /\ kind = Dir("unit")
                        /\ Len(rest) >= 3
                        /\ SubSeq(rest, 1, 3) = <<Dir("client"), Dir("ssh"), Dir("wrapper")>>
                THEN <<tests, Dir("unit"), Dir("wrapper")>> \o SubSeq(rest, 4, Len(rest))
                ELSE <<tests, kind>> \o rest]_vars

\* the ssh integration test and the unit wrapper test have both been given
\* their wrapper destinations
C11_Witness ==
    LET sshTest == <<Dir("tests"), Dir("pytests"), Dir("integration"), Dir("ssh"), Py("x")>>
        wrapTest == <<Dir("tests"), Dir("pytests"), Dir("unit"), Dir("client"), Dir("ssh"),
                      Dir("wrapper"), Py("x")>>
    IN  /\ ~avoid_collisions
        /\ {sshTest, wrapTest} \subseteq DOMAIN renames
        /\ renames[sshTest] = <<Dir("tests"), Dir("integration"), Dir("wrapper"), Py("x")>>
        /\ renames[wrapTest] = <<Dir("tests"), Dir("unit"), Dir("wrapper"), Py("x")>>

\* C12: the build of a table from paths of the recognized categories ends
\* normally, with TargetPathExists or with the no-op error, and with no
\* other failure.
C12_ClassificationTotal == err \in {"none", "TargetPathExists", "ValueError"}

\* a pass of the import rewriter has run in this step
RewriterStep == pc' # pc /\ pc \in {"build", "rewrite_module_imports",
                                    "rewrite_tests_support_imports", "rewrite_patch_arglist"}

\* C13: once rewrite_module_imports has run, a reference to a candidate
\* module names the module that module_imports (the dotted destination of
\* renames without `src`) gives for it.
C13_ImportRewriteAgreesWithRenames ==
    (pc # "build") =>
        \A i \in DOMAIN tree :
            (tree[i].kind = "import" /\ tree[i].origin \in modules) =>
                <<Dotted(WithoutSuffixParts(tree[i].origin)), tree[i].text>> \in module_imports

\* C14: a run of the import rewriter on a tree that a run has already
\* rewritten changes no reference.
C14_RewriterIdempotent ==
    [][(RewriterStep /\ passes >= 1) => tree' = tree]_vars

\* the callback has run on site visited + 1 in this step
SiteStep == pc = "rewrite_utils" /\ (visited' # visited \/ err' # err)

\* ... and get_utils_module_details returned an entry for it
ResolvedStep == SiteStep /\ sites'[visited + 1].details # NoDetails

\* the calling file lies in the destination tree's own utility directory
InOwnUtils(file) == Names(Slice(file, 0, 4)) = <<"src", "saltext", saltext_name, "utils">>

\* C15: the entry resolved for a call site is, in this priority, the
\* destination tree's file at the exact module path, else a destination
\* file declaring the name, else the original tree's file at the exact
\* path, else an original-tree file declaring the name.
C15_ResolutionPriority ==
    \A i \in DOMAIN sites :
        sites[i].details # NoDetails =>
            LET name == sites[i].dunder_mod_func[1]
                exact(tr) == {e \in utils_info : e.path = <<tr, name>>}
                declaring(tr) == {e \in utils_info : e.path[1] = tr /\ e.virtualname = name}
            IN  sites[i].details \in
                    IF exact("saltext") # {} THEN exact("saltext")
                    ELSE IF declaring("saltext") # {} THEN declaring("saltext")
                    ELSE IF exact("salt") # {} THEN exact("salt")
                    ELSE declaring("salt")

\* C16: the issue recorded for a call site is fixed by whether the callee
\* uses dunders, whether it is relocated and whether the calling file is in
\* the destination's own utility directory; it is keyed by the calling file
\* relative to the destination root, its value is the callee's import path,
\* and the other two tables are unchanged.
C16_IssueRecorded ==
    [][ResolvedStep =>
          LET site == sites'[visited + 1]
              d == site.details
              tgt == IF ~d.uses_salt_dunders THEN ""
                     ELSE IF d.migrated THEN "rewrite"
                     ELSE IF InOwnUtils(site.file) THEN "missed_critical"
                     ELSE "missed"
              before(t) == IF site.file \in DOMAIN utils_res[t]
                           THEN utils_res[t][site.file] ELSE {}
          IN  \A t \in {"missed", "missed_critical", "rewrite"} :
                  IF t = tgt
                  THEN /\ DOMAIN utils_res'[t] = DOMAIN utils_res[t] \cup {site.file}
                       /\ utils_res'[t][site.file] = before(t) \cup {d.import}
                       /\ \A f \in DOMAIN utils_res[t] \ {site.file} :
                              utils_res'[t][f] = utils_res[t][f]
                  ELSE utils_res'[t] = utils_res[t]]_vars

C16_Witness ==
    /\ visited = 2
    /\ DOMAIN utils_res.missed_critical # {}
    /\ DOMAIN utils_res.missed # {} \/ DOMAIN utils_res.rewrite # {}

\* C17: a call site becomes a direct import plus a direct call, with the
\* same arguments and the same trailing expression, exactly when the callee
\* uses no dunder or is relocated; otherwise the site and the imports of its
\* file stay as they were.
C17_RewrittenIff ==
    [][ResolvedStep =>
          LET i == visited + 1
              d == sites'[i].details
          IN  /\ \A j \in DOMAIN sites \ {i} : sites'[j] = sites[j]
              /\ IF ~d.uses_salt_dunders \/ d.migrated
                 THEN /\ sites'[i].form = "direct"
                      /\ sites'[i].callee = d.import \o <<sites[i].dunder_mod_func[2]>>
                      /\ sites'[i].function_arguments = sites[i].function_arguments
                      /\ sites'[i].trailing = sites[i].trailing
                      /\ sites'[i].file = sites[i].file
                      /\ file_imports' = file_imports \cup {<<sites[i].file, d.import>>}
                 ELSE /\ sites'[i] = [sites[i] EXCEPT !.details = d]
                      /\ file_imports' = file_imports]_vars

C17_Witness ==
    /\ visited = 2
    /\ sites[1].form = "direct" /\ sites[1].details.uses_salt_dunders
    /\ sites[2].form = "dunder"

\* the outcomes the migration result holds: the entries of its three tables
RECURSIVE Held(_, _)
Held(d, files) ==
    IF files = {} THEN 0
    ELSE LET f == CHOOSE f \in files : TRUE
         IN  Cardinality(d[f]) + Held(d, files \ {f})

HeldOutcomes ==
    Held(dunder_utils_res.missed, DOMAIN dunder_utils_res.missed)
    + Held(dunder_utils_res.missed_critical, DOMAIN dunder_utils_res.missed_critical)
    + Held(dunder_utils_res.rewrite, DOMAIN dunder_utils_res.rewrite)

PassCompleted == pc \in {"run_pre_commit", "print_summary", "cleanup", "done"}

\* C18 as stated: after a completed pass the outcomes held by the result
\* add up to the number of call sites.
C18_OutcomesAddUp == PassCompleted => HeldOutcomes = Len(sites)

\* C18 amended: after a completed pass each table holds exactly the
\* distinct (calling file, callee import) pairs of the sites classified
\* into it, a pair is in one table only, sites rewritten without an issue
\* are not held, and so the held outcomes are at most the number of sites.
C18_DistinctPairsHeld ==
    PassCompleted =>
        LET pairs(t) == {<<f, imp>> \in {<<g, e.import>> : g \in Callers, e \in utils_info} :
                            f \in DOMAIN dunder_utils_res[t] /\ imp \in dunder_utils_res[t][f]}
            classified(t) ==
                {<<sites[i].file, sites[i].details.import>> :
                   i \in {j \in DOMAIN sites :
                            LET d == sites[j].details
                            IN  /\ d.uses_salt_dunders
                                /\ (t = "rewrite") = d.migrated
                                /\ (t = "missed_critical") =
                                       (~d.migrated /\ InOwnUtils(sites[j].file))}}
        IN  /\ \A t \in {"missed", "missed_critical", "rewrite"} :
                  /\ pairs(t) = classified(t)
                  /\ \A f \in DOMAIN dunder_utils_res[t] : dunder_utils_res[t][f] # {}
                  /\ \A f \in DOMAIN dunder_utils_res[t] :
                         dunder_utils_res[t][f] \subseteq {e.import : e \in utils_info}
            /\ \A t1, t2 \in {"missed", "missed_critical", "rewrite"} :
                  t1 # t2 => pairs(t1) \cap pairs(t2) = {}
            /\ HeldOutcomes <= Len(sites)

C18_Witness ==
    /\ PassCompleted
    /\ Len(sites) = 2
    /\ sites[1].file = sites[2].file
    /\ sites[1].details = sites[2].details
    /\ sites[1].details.uses_salt_dunders
    /\ HeldOutcomes = 1

\* C19: a call site that is recorded as an issue does not end the pass: the
\* callback returns, the next site is the one visited next, and the pass
\* returns only after the last site, with every recorded issue in the result
\* that line 644 stores.
C19_IssueNeverAborts ==
    [][/\ (ResolvedStep /\ sites'[visited + 1].details.uses_salt_dunders) =>
              /\ err' = "none"
              /\ visited' = visited + 1
              /\ pc' = "rewrite_utils"
       /\ (pc = "rewrite_utils" /\ pc' # pc) =>
              /\ visited = Len(sites)
              /\ dunder_utils_res' = utils_res
              /\ \A i \in DOMAIN sites :
                     sites[i].details.uses_salt_dunders =>
                         \E t \in {"missed", "missed_critical", "rewrite"} :
                             /\ sites[i].file \in DOMAIN dunder_utils_res'[t]
                             /\ sites[i].details.import \in dunder_utils_res'[t][sites[i].file]]_vars

C19_Witness ==
    /\ PassCompleted
    /\ Len(sites) = 2
    /\ sites[1].details.uses_salt_dunders /\ ~sites[1].details.migrated
    /\ sites[2].form = "direct"
    /\ DOMAIN dunder_utils_res.missed # {}

\* a candidate path that no loop of the build renames
Uncategorised(p) ==
    /\ p \in result
    /\ p \notin modules \cup pytests \cup pytest_support \cup doc
    /\ ~(p \in non_pytests /\ Name(p[3]) = "cloud")

\* C23: a candidate path of no category gets or changes an entry of renames
\* only in a step of _rename_potentially_colliding_test for another path
\* whose destination it is, in the disambiguation branch, and the entry is
\* its `_old` name; no loop body records a rename keyed by it.
C23_UncategorisedKept ==
    [][Stepped =>
          \A p \in result :
              ( /\ Uncategorised(p)
                /\ p \in DOMAIN renames'
                /\ (p \notin DOMAIN renames \/ renames'[p] # renames[p]) ) =>
                  /\ PolicyStep
                  /\ last'.old # p
                  /\ last'.new = p
                  /\ avoid_collisions \/ Collides(p)
                  /\ renames'[p] = Old(p)]_vars

C23_Witness ==
    /\ Built
    /\ ~avoid_collisions
    /\ \E p \in DOMAIN renames : Uncategorised(p) /\ renames[p] = Old(p)
    /\ \E p \in result : Uncategorised(p) /\ p \notin DOMAIN renames

\* C24: after a build that ends normally every key of conflicts is a key of
\* renames, mapped to its conflicts value suffixed `_pytest`, and the
\* conflicts value is a key of renames mapped to its `_old` name; with
\* avoid_collisions true conflicts is empty.
C24_ConflictsWithinRenames ==
    Built =>
        /\ \A old \in DOMAIN conflicts :
              /\ old \in DOMAIN renames
              /\ renames[old] = Pytest(conflicts[old])
              /\ conflicts[old] \in DOMAIN renames
              /\ renames[conflicts[old]] = Old(conflicts[old])
        /\ avoid_collisions => conflicts = EmptyMap

\* C27: every key of renames is a path of the candidate set.
C27_KeysAreCandidates == DOMAIN renames \subseteq result

\* the pytests loop run in a given order
RECURSIVE RunPytestsIn(_, _)
RunPytestsIn(t, order) ==
    IF order = <<>> \/ t.err # "none" THEN t
    ELSE RunPytestsIn(PytestsBody(t, Head(order)), Tail(order))

\* the build with the pytests loop run in a given order
BuildIn(order) ==
    LET t0 == [renames |-> EmptyMap, conflicts |-> EmptyMap, err |-> "none"]
        t1 == RunLoop("modules", t0, modules)
        t2 == RunPytestsIn(t1, order)
        t3 == RunLoop("non_pytests", t2, non_pytests)
        t4 == RunLoop("pytest_support", t3, pytest_support)
    IN  RunLoop("doc", t4, doc)

\* the orders a set can be iterated in
Orders(S) ==
    {o \in [1..Cardinality(S) -> S] : \A i, j \in DOMAIN o : o[i] = o[j] => i = j}

\* two pytest-style candidates share a computed destination that is a
\* candidate and exists, and its two suffixed names are free
SharedDestination ==
    \E a, b \in pytests :
        /\ a # b
        /\ Len(a) >= 4 /\ Len(b) >= 4
        /\ PytestNewPath(a) = PytestNewPath(b)
        /\ PytestNewPath(a) \in result \cap exists
        /\ Old(PytestNewPath(a)) \notin exists
        /\ Pytest(PytestNewPath(a)) \notin exists

\* C25: with avoid_collisions false, a candidate set in which two
\* pytest-style paths share a computed destination that exists has two
\* orders of the pytests loop whose builds both end normally with different
\* renames or conflicts.
C25_OrderDependent ==
    (~avoid_collisions /\ SharedDestination) =>
        \E o1, o2 \in Orders(pytests) :
            /\ BuildIn(o1).err = "none"
            /\ BuildIn(o2).err = "none"
            /\ \/ BuildIn(o1).renames # BuildIn(o2).renames
               \/ BuildIn(o1).conflicts # BuildIn(o2).conflicts

\* a build has ended on a table that the build in the fixed order does not
\* end on
C25_Witness ==
    /\ Built
    /\ ~avoid_collisions
    /\ SharedDestination
    /\ FixedOrderBuild.err = "none"
    /\ \/ renames # FixedOrderBuild.renames
       \/ conflicts # FixedOrderBuild.conflicts

\* the paths the non-pytest candidates end on
NonPytestFinals == {IF p \in DOMAIN renames THEN renames[p] ELSE p : p \in non_pytests}

\* C26: after the build, whatever exists in the destination tree, a
\* non-pytest candidate is reported exactly when its final path exists there
\* and no pytest-style old path is renamed onto that final path; no reported
\* path is the destination of a pytest-style path.
C26_ReportedNonPytests ==
    Built =>
        \A dest \in SUBSET NonPytestFinals :
            /\ \A p \in non_pytests :
                  LET final == IF p \in DOMAIN renames THEN renames[p] ELSE p
                  IN  (final \in non_pytests_after_migration(dest)) <=>
                          /\ final \in dest
                          /\ ~\E old \in pytests \cap DOMAIN renames : renames[old] = final
            /\ non_pytests_after_migration(dest) \subseteq NonPytestFinals
            /\ \A r \in non_pytests_after_migration(dest) :
                  \A old \in pytests \cap DOMAIN renames : renames[old] # r

\* a pytest-style test has taken the place of one non-pytest test, another
\* non-pytest test was moved by the disambiguation branch, and of the two
\* only the second is reported
C26_Witness ==
    /\ Built
    /\ \E p, q \in non_pytests :
          /\ p \notin DOMAIN renames
          /\ \E old \in pytests \cap DOMAIN renames : renames[old] = p
          /\ q \in DOMAIN renames
          /\ non_pytests_after_migration(NonPytestFinals) = {renames[q]}

\* C22: in the summary of a run that got that far, the outstanding-issues
\* section is printed whenever one of the three issue tables is not empty,
\* and the fix-required entry is printed exactly when missed_critical is
\* not empty and lists the dependencies of missed_critical.
C22_IssuesInSummary ==
    summary.printed =>
        LET res == dunder_utils_res
            deps(t) == UNION {res[t][f] : f \in DOMAIN res[t]}
        IN  /\ (deps("missed_critical") \cup deps("missed") \cup deps("rewrite") # {}) =>
                   summary.outstanding
            /\ summary.fix_required.shown <=> (deps("missed_critical") # {})
            /\ summary.fix_required.shown =>
                   summary.fix_required.items = deps("missed_critical")

\* C21: renames and conflicts are written only while the table is built;
\* the first rewrite pass starts on a completed build, and no pass and no
\* later step adds, removes or changes an entry of either table.
C21_TableReadOnlyAfterBuild ==
    [][/\ (pc = "build" /\ pc' # "build") => Built
       /\ (pc # "build" \/ pc' # "build") => (renames' = renames /\ conflicts' = conflicts)
       /\ (renames' # renames \/ conflicts' # conflicts) =>
              (processed' # processed /\ ~Built)]_vars

C21_Witness ==
    /\ pc = "done"
    /\ summary.printed
    /\ DOMAIN conflicts # {}
    /\ tree[1].text # Dotted(<<"salt", "modules", "x">>)
    /\ sites[1].form = "direct"

====
